---- MODULE Spec2Model ----
(***************************************************************************)
(* A model of graph.py of the Workout-Tracker repository: the loader       *)
(* read_data, the per-exercise aggregation of plot_metric_over_time, the   *)
(* weekly count of plot_workouts_per_week and the four metric functions.   *)
(*                                                                         *)
(* A DataFrame is a sequence of rows; a row is a record with the seven     *)
(* columns the loader keeps.  A numeric cell is NaN (missing) or <<v>>.    *)
(* A date is the ordinal of its day; ordinal 0 is a Sunday.                *)
(***************************************************************************)
EXTENDS Integers, Sequences, FiniteSets, TLC

VARIABLES
    pc,             \* "start" before the call, "done" after it
    csv,            \* the table read_csv yields (dates still text)
    df,             \* the DataFrame a function works on / read_data returns
    fillvalue,      \* the values read_data hands to fillna, per column
    metric_name,    \* which metric function plot_metric_over_time is given
    min_exercises,  \* parameter of plot_metric_over_time
    last_x_days,    \* parameter of plot_metric_over_time (None or a number)
    figures,        \* what the calls have handed to matplotlib, in order
    error,          \* "none", or the exception that ended the call
    last_x_weeks,   \* parameter of plot_workouts_per_week
    metric          \* the Series calc_max_consecutive_reps returns

vars == <<pc, csv, df, fillvalue, metric_name, min_exercises, last_x_days,
          figures, error, last_x_weeks, metric>>

-----------------------------------------------------------------------------
(* Bounds of the model.                                                    *)

MaxCsvRows == 3
MaxPlotRows == 3
MaxMinExercises == 2
MaxWeekRows == 3
MaxWeekDay == 14
MaxWeeks == 2
MaxRepsLen == 4
MaxReps == 3

-----------------------------------------------------------------------------
(* Cells and generic helpers.                                              *)

NaN == <<>>
None == <<>>

isna(c) == c = NaN

Range(s) == {s[i] : i \in DOMAIN s}

SeqsUpTo(S, n) == UNION {[1..k -> S] : k \in 0..n}

Max(S) == CHOOSE m \in S : \A x \in S : x <= m

Min(S) == CHOOSE m \in S : \A x \in S : m <= x

RECURSIVE Sum(_)
Sum(s) == IF s = <<>> THEN 0 ELSE s[1] + Sum(Tail(s))

\* A stable ascending sort of s by keys (keys[i] the key of s[i]): an element
\* goes after the elements with a smaller key and after the earlier elements
\* with an equal key.
SortByKey(s, keys) ==
    LET pos == [i \in DOMAIN s |->
                  1 + Cardinality({j \in DOMAIN s :
                        keys[j] < keys[i] \/ (keys[j] = keys[i] /\ j < i)})]
    IN  [p \in DOMAIN s |-> s[CHOOSE i \in DOMAIN s : pos[i] = p]]

-----------------------------------------------------------------------------
(* read_data                                                               *)

\* pd.to_datetime on one cell: the text of a day number, a sequence of
\* decimal digits, is parsed to the day it names ("01" and "1" both to 1).
RECURSIVE to_datetime(_)
to_datetime(text) ==
    IF text = <<>> THEN 0
    ELSE 10 * to_datetime(SubSeq(text, 1, Len(text) - 1)) + text[Len(text)]

Column(table, col) == [i \in DOMAIN table |-> table[i][col]]

\* Series.median(): NaN is skipped; the middle value of the sorted values,
\* or the mean of the two middle values; NaN when no value is present.
\* Numbers are carried in fixed point, two units to 1.0, and the generated
\* tables hold whole numbers, so the mean of two of them is exact.
median_lower(col) ==
    LET values == SelectSeq(col, LAMBDA c : ~isna(c))
        present == SortByKey(values, [i \in DOMAIN values |-> values[i][1]])
        n == Len(present)
    IN  IF n = 0 THEN NaN
        ELSE <<present[(n + 1) \div 2][1]>>

median(col) ==
    LET values == SelectSeq(col, LAMBDA c : ~isna(c))
        present == SortByKey(values, [i \in DOMAIN values |-> values[i][1]])
        n == Len(present)
    IN  IF n = 0 THEN NaN
        ELSE IF n % 2 = 1 THEN <<present[(n + 1) \div 2][1]>>
        ELSE <<(present[n \div 2][1] + present[n \div 2 + 1][1]) \div 2>>

\* Series.fillna(value): a NaN value fills nothing.
fillna(c, value) == IF isna(c) THEN value ELSE c

\* The three values of lines 14-16, each the median of its own column.
FillValues(table) ==
    [Weight |-> median(Column(table, "Weight")),
     Reps   |-> median(Column(table, "Reps")),
     Sets   |-> median(Column(table, "Sets"))]

\* Lines 14-16: each fillna(..., inplace=True) writes into its column of df.
FillMissing(table) ==
    LET fv == FillValues(table)
    IN  [i \in DOMAIN table |->
            [table[i] EXCEPT !.Weight = fillna(@, fv.Weight),
                             !.Reps   = fillna(@, fv.Reps),
                             !.Sets   = fillna(@, fv.Sets)]]

\* DataFrame.drop_duplicates(): the first of each set of equal rows is kept.
RECURSIVE drop_duplicates(_)
drop_duplicates(table) ==
    IF table = <<>> THEN <<>>
    ELSE LET n == Len(table)
             front == SubSeq(table, 1, n - 1)
         IN  IF table[n] \in Range(front) THEN drop_duplicates(front)
             ELSE Append(drop_duplicates(front), table[n])

ParseDates(table) ==
    [i \in DOMAIN table |-> [table[i] EXCEPT !.Date = to_datetime(@)]]

sort_values(table) == SortByKey(table, Column(table, "Date"))

read_data(table) == sort_values(ParseDates(drop_duplicates(FillMissing(table))))

\* The generated csv tables: three date texts, two of them naming the same
\* day, and each row with a missing Weight, a missing Reps or neither.
CsvDates == {<<1>>, <<0, 1>>, <<2>>}
CsvWeightReps == {<<NaN, <<2>>>>, <<<<2>>, <<2>>>>, <<<<4>>, <<2>>>>, <<<<2>>, NaN>>}
CsvSets == {<<2>>}

NumericColumns == {"Weight", "Reps", "Sets"}

CsvRows ==
    {[Date |-> d, WorkoutName |-> "A", ExerciseName |-> "Squat",
      Weight |-> wr[1], Reps |-> wr[2], Sets |-> s, Notes |-> NaN] :
        d \in CsvDates, wr \in CsvWeightReps, s \in CsvSets}

InitRead ==
    /\ pc = "start"
    /\ csv \in SeqsUpTo(CsvRows, MaxCsvRows)
    /\ df = <<>>
    /\ fillvalue = [Weight |-> NaN, Reps |-> NaN, Sets |-> NaN]
    /\ metric_name = "none"
    /\ min_exercises = 0
    /\ last_x_days = None
    /\ figures = <<>>
    /\ error = "none"
    /\ last_x_weeks = 0
    /\ metric = <<>>

ReadData ==
    /\ pc = "start"
    /\ fillvalue' = FillValues(csv)
    /\ df' = read_data(csv)
    /\ pc' = "done"
    /\ UNCHANGED <<csv, metric_name, min_exercises, last_x_days, figures,
                   error, last_x_weeks, metric>>

NextRead == ReadData

SpecRead == InitRead /\ [][NextRead]_vars

-----------------------------------------------------------------------------
(* The metric functions.  Each takes a group (a sequence of rows) and      *)
(* returns one cell per row.  Arithmetic on a NaN cell yields NaN.         *)

Mul(a, b) == IF isna(a) \/ isna(b) THEN NaN ELSE <<a[1] * b[1]>>

calc_best_set(group) ==
    [i \in DOMAIN group |-> Mul(group[i].Weight, group[i].Reps)]

calc_total_volume(group) ==
    [i \in DOMAIN group |->
        Mul(Mul(group[i].Weight, group[i].Reps), group[i].Sets)]

\* Weight * (1 + 0.0333 * Reps), carried in ten-thousandths.
calc_one_rep_max(group) ==
    [i \in DOMAIN group |->
        IF isna(group[i].Weight) \/ isna(group[i].Reps) THEN NaN
        ELSE <<group[i].Weight[1] * (10000 + 333 * group[i].Reps[1])>>]

\* Series.diff(): NaN at the first position and wherever an operand is NaN.
diff_reversed(col) ==
    [i \in DOMAIN col |->
        IF i = 1 \/ isna(col[i]) \/ isna(col[i - 1]) THEN NaN
        ELSE <<col[i - 1][1] - col[i][1]>>]

diff(col) ==
    [i \in DOMAIN col |->
        IF i = 1 \/ isna(col[i]) \/ isna(col[i - 1]) THEN NaN
        ELSE <<col[i][1] - col[i - 1][1]>>]

\* Series.cumsum() of a boolean Series: the running count of True.
RECURSIVE cumsum(_)
cumsum(flags) ==
    IF flags = <<>> THEN <<>>
    ELSE LET n == Len(flags)
             front == cumsum(SubSeq(flags, 1, n - 1))
             before == IF n = 1 THEN 0 ELSE front[n - 1]
         IN  Append(front, before + (IF flags[n] THEN 1 ELSE 0))

\* (Reps.diff() != 1).cumsum() * (Reps == 1); NaN != 1 is True and
\* NaN == 1 is False.
calc_max_consecutive_reps(group) ==
    LET reps == Column(group, "Reps")
        d == diff(reps)
        streak == cumsum([i \in DOMAIN reps |-> d[i] # <<1>>])
    IN  [i \in DOMAIN reps |-> <<streak[i] * (IF reps[i] = <<1>> THEN 1 ELSE 0)>>]

MetricNames == {"Best Set", "Total Volume", "Max Consecutive Reps", "1RM"}

metric_func(name, group) ==
    CASE name = "Best Set" -> calc_best_set(group)
      [] name = "Total Volume" -> calc_total_volume(group)
      [] name = "Max Consecutive Reps" -> calc_max_consecutive_reps(group)
      [] name = "1RM" -> calc_one_rep_max(group)

-----------------------------------------------------------------------------
(* plot_metric_over_time                                                   *)

\* The exercise names of the generated tables, in the sorted order in which
\* groupby('Exercise Name') yields its groups.
ExerciseNames == <<"Curl", "Squat">>

\* groups.size() of one exercise: its rows in df, missing data included.
exercise_counts(table, exercise) ==
    Cardinality({i \in DOMAIN table : table[i].ExerciseName = exercise})

\* The names of line 50-51, in group order: the exercises df holds whose
\* count reaches min_exercises.
all_exercises(table, minimum) ==
    SelectSeq(ExerciseNames, LAMBDA e : exercise_counts(table, e) >= 1)

popular_exercises(table, minimum) ==
    SelectSeq(ExerciseNames,
              LAMBDA e : /\ exercise_counts(table, e) >= 1
                         /\ exercise_counts(table, e) >= minimum)

\* group.dropna(subset=['Weight', 'Reps'])
dropna(group) ==
    SelectSeq(group, LAMBDA r : ~isna(r.Weight) /\ ~isna(r.Reps))

Truthy(x) == x # None /\ x # <<0>>

\* Lines 58-61: the rows no older than x days before the group's last date.
last_x_days_filter(group, x) ==
    IF ~Truthy(x) \/ group = <<>> THEN group
    ELSE LET max_date == Max(Range(Column(group, "Date")))
         IN  SelectSeq(group, LAMBDA r : r.Date >= max_date - x[1])

\* The reduction of one date group: max() skips NaN, and is NaN when
\* nothing else is left.
min_of_group(cells) ==
    LET present == {cells[i][1] : i \in {j \in DOMAIN cells : ~isna(cells[j])}}
    IN  IF present = {} THEN NaN ELSE <<Min(present)>>

max_of_group(cells) ==
    LET present == {cells[i][1] : i \in {j \in DOMAIN cells : ~isna(cells[j])}}
    IN  IF present = {} THEN NaN ELSE <<Max(present)>>

\* Lines 67-68: group.groupby('Date')[metric_name].max(), a Series indexed by
\* the distinct dates in ascending order; an entry is <<date, value>>.
max_metric(group, values) ==
    LET dates == Column(group, "Date")
        index == drop_duplicates(SortByKey(dates, dates))
        rows_on(date) == SelectSeq([i \in DOMAIN group |-> i],
                                   LAMBDA i : group[i].Date = date)
        cells_on(date) == [k \in DOMAIN rows_on(date) |-> values[rows_on(date)[k]]]
    IN  [k \in DOMAIN index |-> <<index[k], max_of_group(cells_on(index[k]))>>]

\* np.polyval(np.polyfit(x, y, 1), x): the least-squares line through the
\* points, evaluated at each x, every value a fraction <<numerator,
\* denominator>>.  One point alone leaves the system rank-deficient and the
\* minimum-norm solution passes through it.  A NaN among y makes the
\* least-squares solver raise.
polyfit_line(series) ==
    LET n == Len(series)
        x == [i \in 1..n |-> series[i][1]]
        y == [i \in 1..n |-> series[i][2][1]]
        sx == Sum(x)
        sy == Sum(y)
        sxx == n * Sum([i \in 1..n |-> x[i] * x[i]]) - sx * sx
        sxy == n * Sum([i \in 1..n |-> x[i] * y[i]]) - sx * sy
    IN  IF n = 1 THEN <<<<y[1], 1>>>>
        ELSE [i \in 1..n |-> <<sy * sxx + sxy * (n * x[i] - sx), n * sxx>>]

\* Lines 55-81 for one group: what the body hands to matplotlib, and the
\* exception that ends it, if any.  A figure is its line's label (the
\* exercise name), the series and the fit line.  plt.figure() opens the
\* figure before the first plt.plot evaluates
\* group["Exercise Name"].iloc[0], which raises IndexError on a group with
\* no rows left.
BlankFigure == [label |-> "", series |-> <<>>, fit |-> <<>>]

plot_group(group, name, x_days) ==
    LET kept == last_x_days_filter(dropna(group), x_days)
        series == max_metric(kept, metric_func(name, kept))
    IN  IF kept = <<>>
        THEN [figure |-> BlankFigure, error |-> "IndexError"]
        ELSE IF \E k \in DOMAIN series : isna(series[k][2])
        THEN [figure |-> [label |-> kept[1].ExerciseName, series |-> series,
                          fit |-> <<>>],
              error |-> "LinAlgError"]
        ELSE [figure |-> [label |-> kept[1].ExerciseName, series |-> series,
                          fit |-> polyfit_line(series)],
              error |-> "none"]

\* The loop of line 53 over the groups of `names`, ended by the first
\* exception.
RECURSIVE plot_groups(_, _, _, _)
plot_groups(table, names, name, x_days) ==
    IF names = <<>> THEN [figures |-> <<>>, error |-> "none"]
    ELSE LET group == SelectSeq(table, LAMBDA r : r.ExerciseName = names[1])
             one == plot_group(group, name, x_days)
             rest == plot_groups(table, Tail(names), name, x_days)
         IN  IF one.error # "none"
             THEN [figures |-> <<one.figure>>, error |-> one.error]
             ELSE [figures |-> <<one.figure>> \o rest.figures,
                   error |-> rest.error]

plot_metric_over_time(table, name, minimum, x_days) ==
    plot_groups(table, popular_exercises(table, minimum), name, x_days)

\* The generated DataFrames.
PlotDates == {1, 3}
PlotWeights == {<<2>>}
PlotReps == {NaN, <<1>>, <<2>>}
PlotSets == {<<3>>}
PlotLastDays == {None, <<1>>}

PlotRows ==
    [Date : PlotDates, WorkoutName : {"A"},
     ExerciseName : Range(ExerciseNames),
     Weight : PlotWeights, Reps : PlotReps, Sets : PlotSets, Notes : {NaN}]

InitPlot ==
    /\ pc = "start"
    /\ csv = <<>>
    /\ df \in SeqsUpTo(PlotRows, MaxPlotRows)
    /\ fillvalue = [Weight |-> NaN, Reps |-> NaN, Sets |-> NaN]
    /\ metric_name = "none"
    /\ min_exercises = 0
    /\ last_x_days = None
    /\ figures = <<>>
    /\ error = "none"
    /\ last_x_weeks = 0
    /\ metric = <<>>

PlotMetricOverTime ==
    /\ pc = "start"
    /\ \E name \in MetricNames, minimum \in 0..MaxMinExercises,
          x_days \in PlotLastDays :
          LET out == plot_metric_over_time(df, name, minimum, x_days)
          IN  /\ metric_name' = name
              /\ min_exercises' = minimum
              /\ last_x_days' = x_days
              /\ figures' = out.figures
              /\ error' = out.error
    /\ pc' = "done"
    /\ UNCHANGED <<csv, df, fillvalue, last_x_weeks, metric>>

NextPlot == PlotMetricOverTime

SpecPlot == InitPlot /\ [][NextPlot]_vars

-----------------------------------------------------------------------------
(* plot_workouts_per_week                                                  *)

\* The label of the weekly bin ('W', weeks ending on Sunday, closed and
\* labelled on the right) a date falls in: the first Sunday not before it.
week_label(date) == date + ((7 - (date % 7)) % 7)

\* week_groups['Workout Name'].nunique(), sorted by index: one <<label,
\* count>> per weekly bin from the first to the last bin holding a row, the
\* bins without rows included, with the number of distinct workout names.
workouts_per_week(table) ==
    IF table = <<>> THEN <<>>
    ELSE LET labels == {week_label(table[i].Date) : i \in DOMAIN table}
             first == Min(labels)
             bins == (Max(labels) - first) \div 7 + 1
         IN  [b \in 1..bins |->
                <<first + 7 * (b - 1),
                  Cardinality({table[i].WorkoutName :
                      i \in {j \in DOMAIN table :
                                week_label(table[j].Date) = first + 7 * (b - 1)}})>>]

\* Lines 88-96: the rows from end_date - last_x_weeks weeks to end_date, both
\* included, counted per week.
plot_workouts_per_week(table, weeks) ==
    LET end_date == Max(Range(Column(table, "Date")))
        start_date == end_date - 7 * weeks
        df_last_x_weeks ==
            SelectSeq(table, LAMBDA r : r.Date >= start_date /\ r.Date <= end_date)
    IN  workouts_per_week(df_last_x_weeks)

\* The generated DataFrames: at least one row, so that end_date exists.
WeekRows ==
    [Date : 0..MaxWeekDay, WorkoutName : {"A", "B"}, ExerciseName : {"Squat"},
     Weight : {<<2>>}, Reps : {<<1>>}, Sets : {<<3>>}, Notes : {NaN}]

InitWeek ==
    /\ pc = "start"
    /\ csv = <<>>
    /\ df \in SeqsUpTo(WeekRows, MaxWeekRows) \ {<<>>}
    /\ fillvalue = [Weight |-> NaN, Reps |-> NaN, Sets |-> NaN]
    /\ metric_name = "none"
    /\ min_exercises = 0
    /\ last_x_days = None
    /\ figures = <<>>
    /\ error = "none"
    /\ last_x_weeks = 0
    /\ metric = <<>>

PlotWorkoutsPerWeek ==
    /\ pc = "start"
    /\ \E weeks \in 1..MaxWeeks :
          /\ last_x_weeks' = weeks
          /\ figures' = <<[label |-> "Workouts Per Week",
                           series |-> plot_workouts_per_week(df, weeks),
                           fit |-> <<>>]>>
    /\ pc' = "done"
    /\ UNCHANGED <<csv, df, fillvalue, metric_name, min_exercises,
                   last_x_days, error, metric>>

NextWeek == PlotWorkoutsPerWeek

SpecWeek == InitWeek /\ [][NextWeek]_vars

-----------------------------------------------------------------------------
(* calc_max_consecutive_reps on its own.                                   *)

RepsRows ==
    [Date : {1}, WorkoutName : {"A"}, ExerciseName : {"Squat"},
     Weight : {<<2>>}, Reps : {NaN} \cup {<<r>> : r \in 1..MaxReps},
     Sets : {<<3>>}, Notes : {NaN}]

InitReps ==
    /\ pc = "start"
    /\ csv = <<>>
    /\ df \in SeqsUpTo(RepsRows, MaxRepsLen)
    /\ fillvalue = [Weight |-> NaN, Reps |-> NaN, Sets |-> NaN]
    /\ metric_name = "none"
    /\ min_exercises = 0
    /\ last_x_days = None
    /\ figures = <<>>
    /\ error = "none"
    /\ last_x_weeks = 0
    /\ metric = <<>>

CalcMaxConsecutiveReps ==
    /\ pc = "start"
    /\ metric' = calc_max_consecutive_reps(df)
    /\ metric_name' = "Max Consecutive Reps"
    /\ pc' = "done"
    /\ UNCHANGED <<csv, df, fillvalue, min_exercises, last_x_days, figures,
                   error, last_x_weeks>>

NextReps == CalcMaxConsecutiveReps

SpecReps == InitReps /\ [][NextReps]_vars

-----------------------------------------------------------------------------
(* Properties of read_data.                                                *)

\* C1: the collection read_data returns holds no two rows equal on all seven
\* fields (Date as the parsed date, Weight/Reps/Sets after imputation).
C1_NoDuplicateRows ==
    pc = "done" =>
        \A i, j \in DOMAIN df : i # j => df[i] # df[j]

\* C2: no row read_data returns has a missing Weight, Reps or Sets, also
\* when a whole column of the input is missing.
C2_NoMissingValues ==
    pc = "done" =>
        \A i \in DOMAIN df : \A col \in NumericColumns : ~isna(df[i][col])

\* The k-th smallest (k from 0) of the present values of a column, by
\* counting: fewer than k+1 values lie below it, at least k+1 do not exceed it.
Present(col) == {i \in DOMAIN col : ~isna(col[i])}

OrderStatistic(col, k) ==
    CHOOSE v \in {col[i][1] : i \in Present(col)} :
        /\ Cardinality({i \in Present(col) : col[i][1] < v}) <= k
        /\ Cardinality({i \in Present(col) : col[i][1] <= v}) > k

MedianOfPresent(col) ==
    LET n == Cardinality(Present(col))
    IN  IF n = 0 THEN NaN
        ELSE <<(OrderStatistic(col, (n - 1) \div 2)
                + OrderStatistic(col, n \div 2)) \div 2>>

Permute(table, p) == [i \in DOMAIN table |-> table[p[i]]]

\* C3: every missing Weight, Reps or Sets is replaced by the median of the
\* column's present values over the whole input table (duplicates included,
\* so taken before drop_duplicates and the sort), and the value is the same
\* for every permutation of the input rows.
C3_MedianImputation ==
    pc = "done" =>
        /\ \A col \in NumericColumns :
              fillvalue[col] = MedianOfPresent(Column(csv, col))
        /\ \A p \in Permutations(DOMAIN csv) :
              FillValues(Permute(csv, p)) = fillvalue
        /\ Range(df) =
              {[r EXCEPT !.Date = to_datetime(@),
                         !.Weight = IF isna(@) THEN fillvalue.Weight ELSE @,
                         !.Reps = IF isna(@) THEN fillvalue.Reps ELSE @,
                         !.Sets = IF isna(@) THEN fillvalue.Sets ELSE @] :
               r \in Range(csv)}

\* A table with a missing Weight, two different present Weights (the median
\* is the mean of the two) and the missing one filled with it.
C3_Witness ==
    /\ pc = "done"
    /\ \E i \in DOMAIN csv : isna(csv[i].Weight)
    /\ {csv[i].Weight : i \in DOMAIN csv} = {NaN, <<2>>, <<4>>}
    /\ fillvalue.Weight = <<3>>
    /\ \E i \in DOMAIN df : df[i].Weight = <<3>>

-----------------------------------------------------------------------------
(* Properties of plot_metric_over_time.                                    *)

\* The figures that carry a series (the blank figure of a failed group has
\* no labelled line).
Plotted == {k \in DOMAIN figures : figures[k].label # ""}

RowsOf(exercise) == {i \in DOMAIN df : df[i].ExerciseName = exercise}

\* C4: every exercise a series is produced for has at least min_exercises
\* rows in the input table, counted before the missing-data and the
\* trailing-days filters; an exercise with fewer rows produces no series.
C4_OccurrenceFilter ==
    pc = "done" =>
        \A k \in Plotted : Cardinality(RowsOf(figures[k].label)) >= min_exercises

\* Squat with 2 rows and Curl with 1 row under min_exercises = 2: only Squat.
C4_Witness ==
    /\ pc = "done"
    /\ min_exercises = 2
    /\ Cardinality(RowsOf("Squat")) = 2
    /\ Cardinality(RowsOf("Curl")) = 1
    /\ error = "none"
    /\ {figures[k].label : k \in DOMAIN figures} = {"Squat"}

\* The rows of an exercise the aggregation retains: Weight and Reps present
\* and, under last_x_days, no older than that many days before the last such
\* row.
Complete(exercise) ==
    {i \in RowsOf(exercise) : ~isna(df[i].Weight) /\ ~isna(df[i].Reps)}

Retained(exercise) ==
    IF last_x_days = None THEN Complete(exercise)
    ELSE {i \in Complete(exercise) :
            \A j \in Complete(exercise) : df[i].Date >= df[j].Date - last_x_days[1]}

\* The metric function's value at each retained row, by row index of df.
RetainedValues(exercise) ==
    LET rows == SelectSeq([i \in DOMAIN df |-> i],
                          LAMBDA i : i \in Retained(exercise))
        values == metric_func(metric_name, [k \in DOMAIN rows |-> df[rows[k]]])
    IN  [i \in Retained(exercise) |->
            values[CHOOSE k \in DOMAIN rows : rows[k] = i]]

\* C5: in every series, the value at a date is the maximum of the metric
\* function's values over the retained rows of the exercise on that date;
\* there is exactly one entry per distinct date, in ascending date order.
C5_MaxPerDate ==
    pc = "done" =>
        \A k \in Plotted :
            LET e == figures[k].label
                series == figures[k].series
                value == RetainedValues(e)
            IN  /\ {series[n][1] : n \in DOMAIN series}
                     = {df[i].Date : i \in Retained(e)}
                /\ \A m, n \in DOMAIN series : m < n => series[m][1] < series[n][1]
                /\ \A n \in DOMAIN series :
                     LET on == {i \in Retained(e) : df[i].Date = series[n][1]}
                     IN  /\ \E i \in on : series[n][2] = value[i]
                         /\ \A i \in on : value[i][1] <= series[n][2][1]

\* Two rows on one date with different metric values and a later-listed
\* earlier date: a series of two dates whose value is the larger one.
C5_Witness ==
    /\ pc = "done"
    /\ metric_name = "1RM"
    /\ \E i, j \in DOMAIN df :
          /\ i < j
          /\ df[i].ExerciseName = "Squat" /\ df[j].ExerciseName = "Squat"
          /\ df[i].Date = 3 /\ df[j].Date = 3
          /\ df[i].Reps = <<2>> /\ df[j].Reps = <<1>>
    /\ \E i \in DOMAIN df : df[i].ExerciseName = "Squat" /\ df[i].Date = 1
                            /\ i = Len(df) /\ df[i].Reps = <<1>>
    /\ \E k \in Plotted :
          figures[k].series = <<<<1, <<2 * 10333>>>>, <<3, <<2 * 10666>>>>>>

\* C7: an exercise that passes the occurrence filter but has no row left
\* after the missing Weight/Reps filter is silently omitted: no error is
\* raised and every figure produced has at least one series entry.
C7_EmptyGroupOmitted ==
    pc = "done" =>
        /\ error = "none"
        /\ \A k \in DOMAIN figures : figures[k].series # <<>>

\* C8: a series of fewer than 2 dates gets no fit line; a fit line is
\* produced only for a series of at least 2 distinct dates.
C8_DegenerateFitSkipped ==
    pc = "done" =>
        \A k \in DOMAIN figures :
            figures[k].fit # <<>> => Len(figures[k].series) >= 2

\* C9: under last_x_days, every plotted exercise has at least min_exercises
\* rows dated no earlier than last_x_days days before its latest date.
C9_CountedOverLastDays ==
    (pc = "done" /\ last_x_days # None) =>
        \A k \in Plotted :
            LET rows == RowsOf(figures[k].label)
                latest == Max({df[i].Date : i \in rows})
            IN  Cardinality({i \in rows : df[i].Date >= latest - last_x_days[1]})
                    >= min_exercises

-----------------------------------------------------------------------------
(* Properties of plot_workouts_per_week and calc_max_consecutive_reps.     *)

\* C6: with last_x_weeks = N and end_date the latest date of the records,
\* the output has at most N weekly buckets and every bucket key lies within
\* [end_date - N weeks, end_date].
C6_WindowedBuckets ==
    pc = "done" =>
        LET buckets == figures[1].series
            end_date == Max({df[i].Date : i \in DOMAIN df})
        IN  /\ Len(buckets) <= last_x_weeks
            /\ \A b \in DOMAIN buckets :
                  /\ buckets[b][1] >= end_date - 7 * last_x_weeks
                  /\ buckets[b][1] <= end_date

\* Position j starts a new streak: it is the first, or its reps are not the
\* previous reps plus one (a comparison with NaN never finds equality).
StartsStreak(reps, j) ==
    \/ j = 1
    \/ isna(reps[j]) \/ isna(reps[j - 1])
    \/ reps[j][1] # reps[j - 1][1] + 1

streak_id(reps, i) == Cardinality({j \in 1..i : StartsStreak(reps, j)})

\* C10: calc_max_consecutive_reps returns at position i the value
\* streak_id[i] if reps[i] = 1 and 0 otherwise, streak_id[i] being the number
\* of positions j <= i with reps[j] # reps[j-1] + 1, the first one counted.
C10_StreakRule ==
    pc = "done" =>
        LET reps == Column(df, "Reps")
        IN  /\ DOMAIN metric = DOMAIN reps
            /\ \A i \in DOMAIN reps :
                  metric[i] = IF reps[i] = <<1>> THEN <<streak_id(reps, i)>>
                              ELSE <<0>>

\* reps 1, 2, 1, 1: the streak continues at the 2 and restarts twice after.
C10_Witness ==
    /\ pc = "done"
    /\ Column(df, "Reps") = <<<<1>>, <<2>>, <<1>>, <<1>>>>
    /\ metric = <<<<1>>, <<0>>, <<2>>, <<3>>>>

====
